---- MODULE Spec2Model ----
(***************************************************************************)
(* Text buffer engine of rust_text_editor.                                 *)
(*                                                                         *)
(*   PieceTable                 src/src/core/piece_table.rs                *)
(*   TemporaryBufferAddText     src/src/temporary_buffer_add.rs            *)
(*   TemporaryBufferDeleteText  src/src/temporary_buffer_deletion.rs       *)
(*   Position                   src/src/position.rs                        *)
(*   Editor                     src/src/editor.rs                          *)
(*   main's key loop            src/src/main.rs                            *)
(*                                                                         *)
(* Spec drives a PieceTable on its own with add_text and delete_text       *)
(* calls; SpecBuffers drives the two temporary buffers on their own with   *)
(* calls of their methods; SpecEditor is main's loop: Editor::new, then    *)
(* one key at a time, each handled by the Editor and followed by a refresh *)
(* of the screen.                                                          *)
(*                                                                         *)
(* Text is a sequence of one-byte characters; offsets are the 0-based      *)
(* byte offsets of the Rust code, converted to 1-based only where a TLA+   *)
(* sequence is indexed.  A Rust panic is the flag panicked; an integer     *)
(* overflow panics or wraps as the build has overflow checks or not.       *)
(***************************************************************************)
EXTENDS Integers, Sequences, FiniteSets, TLC

\* ---------------------------------------------------------------- bounds
\* longest initial text handed to PieceTable::new
MaxInitLen == 2
\* length of the non-empty text handed to an add_text call
MaxInsertLen == 3
\* number of add_text / delete_text calls in one run
MaxOps == 3
\* number of keys main's loop reads in one run
MaxKeys == 4
\* largest temporary_buffer_max_length handed to Editor::new
MaxBufferLength == 2

\* the characters of the initial text, and the characters the calls insert:
\* every call inserts characters no other call uses, so a character of the
\* document identifies the call and the offset it came from
InitChars == <<"a", "b", "c", "d">>
InsertChars == <<"e", "f", "g", "h", "i", "j", "k", "l", "m", "n", "o", "p",
                 "q", "r", "s", "t", "u", "v", "w", "x", "y", "z">>

\* the initial texts of the editor and the characters typed into it
EditorInitTexts == {<<>>, <<"a", "b">>, <<"a", " ", "b">>, <<"a", "b", "\n", "c">>}
TypedChars == {"x", " "}

\* Option::None of an Option<usize>
None == -1

\* the initial texts: "", "a", "ab", ...
InitTexts == {SubSeq(InitChars, 1, k) : k \in 0..MaxInitLen}

\* the texts call number n may insert: "", and the MaxInsertLen characters
\* reserved for that call
InsertTexts(n) ==
    {<<>>, SubSeq(InsertChars, n * MaxInsertLen + 1, n * MaxInsertLen + MaxInsertLen)}

VARIABLES
    original_buffer,          \* PieceTable.original_buffer
    add_buffer,               \* PieceTable.add_buffer
    pieces,                   \* PieceTable.pieces
    text_position,            \* Editor.text_position
    temporary_add_buffer,     \* Editor.temporary_add_buffer
    temporary_delete_buffer,  \* Editor.temporary_delete_buffer
    cursor,                   \* Editor.cursor
    right_most_column,        \* Editor.right_most_column
    lines_map,                \* Editor.lines_map
    overflow_checks,          \* the build panics on integer overflow (debug) or wraps (release)
    panicked,                 \* the process has panicked
    last,                     \* the last call made and what it returned
    nops,                     \* number of calls made so far
    ref_text,                 \* plain-string reference model of the document
    ref_position,             \* cursor of the reference editor
    only_basic,               \* no key but char, Backspace, Delete, Left, Right, Enter so far
    inserted,                 \* the texts add_text has inserted, concatenated in call order
    table_calls,              \* the PieceTable calls the last Editor method issued, in order
    persisted,                \* what each of those calls returned, and get_text() around it
    streak,                   \* the add_char calls in a row since both buffers were empty
    returned                  \* what the last call made on a temporary buffer alone returned

table_vars == <<original_buffer, add_buffer, pieces>>

editor_vars == <<text_position, temporary_add_buffer, temporary_delete_buffer, cursor,
                 right_most_column, lines_map, overflow_checks, panicked>>

ghost_vars == <<last, nops, ref_text, ref_position, only_basic, inserted, table_calls, persisted, streak,
               returned>>

vars == <<table_vars, editor_vars, ghost_vars>>

\* ------------------------------------------------------------ PieceTable
\* struct Piece
Piece(buffer_type, start, length) ==
    [buffer_type |-> buffer_type, start |-> start, length |-> length]

\* struct PieceTable
PieceTable(original, added, ps) ==
    [original_buffer |-> original, add_buffer |-> added, pieces |-> ps]

\* Result<(), String> of a call together with the table it leaves behind
Ok(pt) == [ok |-> TRUE, pt |-> pt]
Err(pt) == [ok |-> FALSE, pt |-> pt]

\* PieceTable::new
new(text) == PieceTable(text, <<>>, <<Piece("Original", 0, Len(text))>>)

RECURSIVE SumLengths(_)
SumLengths(ps) == IF ps = <<>> THEN 0 ELSE Head(ps).length + SumLengths(Tail(ps))

\* PieceTable::total_length
total_length(pt) == SumLengths(pt.pieces)

\* the buffer a piece names
BufferOf(pt, piece) ==
    IF piece.buffer_type = "Original" THEN pt.original_buffer ELSE pt.add_buffer

\* &buffer[start..start + length] is a legal slice
SliceInRange(buffer, piece) == piece.start + piece.length <= Len(buffer)

\* PieceTable::get_text_from_buffer; the Rust slice panics when out of range,
\* which is marked here by the text <<"!">>
get_text_from_buffer(buffer, piece) ==
    IF SliceInRange(buffer, piece)
    THEN SubSeq(buffer, piece.start + 1, piece.start + piece.length)
    ELSE <<"!">>

RECURSIVE ConcatPieces(_, _)
ConcatPieces(pt, ps) ==
    IF ps = <<>> THEN <<>>
    ELSE get_text_from_buffer(BufferOf(pt, Head(ps)), Head(ps)) \o ConcatPieces(pt, Tail(ps))

\* PieceTable::get_text
get_text(pt) == ConcatPieces(pt, pt.pieces)

\* a position check that is off by one
add_text_invalid_off_by_one(position, total_len) == position > total_len + 1

\* add_text: the position is rejected
add_text_invalid(position, total_len) == position > total_len

\* the text put in front of the add buffer instead of at its end
add_text_push_front(added, text) == text \o added

\* add_text: the text is appended to the add buffer
add_text_push(added, text) == added \o text

\* add_text: the piece for the inserted text
added_piece(new_piece_start_position, text) ==
    Piece("Added", new_piece_start_position, Len(text))

\* a split offset taken from the start of the document instead of the piece
split_offset_at_from_zero(position, current_pos) == position

\* add_text: offset of the insertion point inside the piece found
split_offset_at(position, current_pos) == position - current_pos

\* add_text: the search loop for the piece where the insertion happens
RECURSIVE add_text_find(_, _, _, _)
add_text_find(ps, position, index, current_pos) ==
    IF index = Len(ps)
    THEN [insert_idx |-> Len(ps), split_offset |-> 0]
    ELSE IF position <= current_pos + ps[index + 1].length
         THEN [insert_idx |-> index, split_offset |-> split_offset_at(position, current_pos)]
         ELSE add_text_find(ps, position, index + 1, current_pos + ps[index + 1].length)

\* add_text: left part of the split piece (if any)
left_part(piece, split_offset) ==
    IF split_offset > 0
    THEN <<Piece(piece.buffer_type, piece.start, split_offset)>>
    ELSE <<>>

\* a right part that keeps the length of the whole piece
right_part_full_length(piece, split_offset) ==
    IF split_offset < piece.length
    THEN <<Piece(piece.buffer_type, piece.start + split_offset, piece.length)>>
    ELSE <<>>

\* add_text: right part of the split piece (if any)
right_part(piece, split_offset) ==
    IF split_offset < piece.length
    THEN <<Piece(piece.buffer_type, piece.start + split_offset, piece.length - split_offset)>>
    ELSE <<>>

\* add_text: the piece list after the new piece went in at insert_idx
add_text_splice(ps, f, newp) ==
    IF f.insert_idx = Len(ps)
    THEN Append(ps, newp)
    ELSE LET piece == ps[f.insert_idx + 1]
         IN  SubSeq(ps, 1, f.insert_idx)
               \o left_part(piece, f.split_offset)
               \o <<newp>>
               \o right_part(piece, f.split_offset)
               \o SubSeq(ps, f.insert_idx + 2, Len(ps))

\* PieceTable::add_text
add_text(pt, text, position) ==
    IF text = <<>> THEN Ok(pt)
    ELSE IF add_text_invalid(position, total_length(pt)) THEN Err(pt)
    ELSE LET new_piece_start_position == Len(pt.add_buffer)
             added == add_text_push(pt.add_buffer, text)
             newp == added_piece(new_piece_start_position, text)
         IN  IF position = 0 /\ pt.pieces = <<>>
             THEN Ok(PieceTable(pt.original_buffer, added, <<newp>>))
             ELSE Ok(PieceTable(pt.original_buffer, added,
                        add_text_splice(pt.pieces,
                                        add_text_find(pt.pieces, position, 0, 0),
                                        newp)))

\* a range check that forgets start > end
delete_text_invalid_no_order(start, end, total_len) ==
    start > total_len \/ end > total_len

\* delete_text: the range is rejected
delete_text_invalid(start, end, total_len) ==
    start > total_len \/ end > total_len \/ start > end

\* delete_text: the search loop for the pieces holding start and end;
\* f carries start_piece_idx, end_piece_idx, start_offset, end_offset
RECURSIVE delete_text_find(_, _, _, _, _, _)
delete_text_find(ps, start, end, i, current_pos, f) ==
    IF i = Len(ps) THEN f
    ELSE LET piece_end == current_pos + ps[i + 1].length
             f1 == IF f.start_piece_idx = None /\ start >= current_pos /\ start < piece_end
                   THEN [f EXCEPT !.start_piece_idx = i, !.start_offset = start - current_pos]
                   ELSE f
         IN  IF end > current_pos /\ end <= piece_end
             THEN [f1 EXCEPT !.end_piece_idx = i, !.end_offset = end - current_pos]
             ELSE delete_text_find(ps, start, end, i + 1, piece_end, f1)

\* a start-piece rest that is kept even when nothing of the piece is left
start_piece_rest_always(piece, start_offset) ==
    <<Piece(piece.buffer_type, piece.start, start_offset)>>

\* delete_text: the part of the start piece before the deletion (if any)
start_piece_rest(piece, start_offset) ==
    IF start_offset > 0
    THEN <<Piece(piece.buffer_type, piece.start, start_offset)>>
    ELSE <<>>

\* an end-piece rest that keeps the length of the whole piece
end_piece_rest_full_length(piece, end_offset) ==
    IF end_offset < piece.length
    THEN <<Piece(piece.buffer_type, piece.start + end_offset, piece.length)>>
    ELSE <<>>

\* delete_text: the part of the end piece after the deletion (if any)
end_piece_rest(piece, end_offset) ==
    IF end_offset < piece.length
    THEN <<Piece(piece.buffer_type, piece.start + end_offset, piece.length - end_offset)>>
    ELSE <<>>

\* delete_text: the pieces after the end piece
pieces_after(ps, end_idx) ==
    IF end_idx + 1 < Len(ps) THEN SubSeq(ps, end_idx + 2, Len(ps)) ELSE <<>>

\* delete_text: the new piece sequence without the deleted content
delete_text_build(ps, start_idx, end_idx, f) ==
    SubSeq(ps, 1, start_idx)
      \o start_piece_rest(ps[start_idx + 1], f.start_offset)
      \o (IF end_idx < Len(ps) THEN end_piece_rest(ps[end_idx + 1], f.end_offset) ELSE <<>>)
      \o pieces_after(ps, end_idx)

\* an empty range that is not short-cut
delete_text_trivial_never(start, end) == FALSE

\* delete_text: nothing to delete (empty range)
delete_text_trivial(start, end) == start = end

\* PieceTable::delete_text
delete_text(pt, start, end) ==
    IF delete_text_invalid(start, end, total_length(pt)) THEN Err(pt)
    ELSE IF delete_text_trivial(start, end) THEN Ok(pt)
    ELSE LET f == delete_text_find(pt.pieces, start, end, 0, 0,
                     [start_piece_idx |-> None, end_piece_idx |-> None,
                      start_offset |-> 0, end_offset |-> 0])
         IN  IF f.start_piece_idx = None THEN Err(pt)
             ELSE LET end_idx == IF f.end_piece_idx = None
                                 THEN Len(pt.pieces) - 1 ELSE f.end_piece_idx
                  IN  Ok(PieceTable(pt.original_buffer, pt.add_buffer,
                            delete_text_build(pt.pieces, f.start_piece_idx, end_idx, f)))

\* ------------------------------------------------------------- integers
\* usize::MAX.  The machine's usize has 64 bits; the model keeps 31, which
\* changes nothing the code can observe: a wrapped value is only compared
\* with lengths and offsets of the document, all far below either maximum.
UsizeMax == (2^30 - 1) * 2 + 1

\* a - b on usize, wrapping when b > a (what a build without overflow checks
\* computes; a build with overflow checks panics instead)
wrapping_sub(a, b) == IF a >= b THEN a - b ELSE (UsizeMax - b) + a + 1

\* a test that takes the blank for the only whitespace
is_whitespace_blank_only(ch) == ch = " "

\* char::is_whitespace, for the characters of the model
is_whitespace(ch) == ch \in {" ", "\n"}

\* ------------------------------------------------ TemporaryBufferAddText
\* TemporaryBufferAddText::new; moved_non_empty is history: update_position
\* has been applied to the buffer while it held characters
TemporaryBufferAddText_new(max_length, cursor_position) ==
    [buffer |-> <<>>, max_length |-> max_length, position |-> cursor_position,
     moved_non_empty |-> FALSE]

\* a capacity test that lets one character too many in
add_buffer_full_one_late(b) == Len(b.buffer) > b.max_length

\* TemporaryBufferAddText::add_char: the buffer is already full
add_buffer_full(b) == Len(b.buffer) >= b.max_length

\* an add_char that asks for a flush as soon as the buffer holds a character
TemporaryBufferAddText_add_char_flush_early(b, c) ==
    IF add_buffer_full(b)
    THEN [result |-> "Err", buf |-> b]
    ELSE LET b1 == [b EXCEPT !.buffer = Append(b.buffer, c)]
         IN  IF Len(b1.buffer) >= 1
             THEN [result |-> "MustPersist", buf |-> b1]
             ELSE [result |-> "Added", buf |-> b1]

\* TemporaryBufferAddText::add_char
TemporaryBufferAddText_add_char(b, c) ==
    IF add_buffer_full(b)
    THEN [result |-> "Err", buf |-> b]
    ELSE LET b1 == [b EXCEPT !.buffer = Append(b.buffer, c)]
         IN  IF Len(b1.buffer) = b1.max_length
             THEN [result |-> "MustPersist", buf |-> b1]
             ELSE [result |-> "Added", buf |-> b1]

\* TemporaryBufferAddText::update_position
TemporaryBufferAddText_update_position(b, new_position) ==
    [b EXCEPT !.position = new_position,
              !.moved_non_empty = @ \/ b.buffer # <<>>]

\* TemporaryBufferAddText::delete_char (String::pop of an empty buffer does nothing)
TemporaryBufferAddText_delete_char(b) ==
    IF b.position > 0 /\ b.buffer # <<>>
    THEN [b EXCEPT !.buffer = SubSeq(b.buffer, 1, Len(b.buffer) - 1)]
    ELSE b

\* a clear that moves the anchor and keeps the characters
TemporaryBufferAddText_clear_position_only(b, cursor_position) ==
    [b EXCEPT !.position = cursor_position]

\* TemporaryBufferAddText::clear
TemporaryBufferAddText_clear(b, cursor_position) ==
    [b EXCEPT !.buffer = <<>>, !.position = cursor_position]

\* TemporaryBufferAddText::is_cursor_on_buffer
is_cursor_on_buffer(b, cursor_position) ==
    LET end == b.position + Len(b.buffer)
    IN  cursor_position >= b.position /\ cursor_position < end

\* --------------------------------------------- TemporaryBufferDeleteText
\* TemporaryBufferDeleteText::new
TemporaryBufferDeleteText_new(max_length) ==
    [max_length |-> max_length, start |-> None, end |-> None]

\* what a TemporaryBufferDeleteText call hands back: its Result, the buffer
\* it leaves, and whether it panicked
DeleteResult(result, d, panic) == [result |-> result, buf |-> d, panic |-> panic]

\* TemporaryBufferDeleteText::add_char on a buffer with no range
delete_buffer_open(d, position, key) ==
    IF key # "Backspace" /\ key # "Delete" THEN DeleteResult("Err", d, FALSE)
    ELSE IF key = "Backspace"
         THEN IF position = 0
              THEN DeleteResult("NoChange", d, FALSE)
              ELSE DeleteResult("Added", [d EXCEPT !.start = position - 1, !.end = position], FALSE)
         ELSE DeleteResult("Added", [d EXCEPT !.start = position, !.end = position + 1], FALSE)

\* TemporaryBufferDeleteText::add_char: the closing test of an extended range
delete_buffer_must_persist(d, checks) ==
    IF d.end < d.start /\ checks
    THEN DeleteResult("Err", d, TRUE)
    ELSE IF wrapping_sub(d.end, d.start) = d.max_length
         THEN DeleteResult("MustPersist", d, FALSE)
         ELSE DeleteResult("Added", d, FALSE)

\* TemporaryBufferDeleteText::add_char on a buffer that holds a range
delete_buffer_extend(d, key, checks) ==
    IF key = "Delete"
    THEN delete_buffer_must_persist([d EXCEPT !.end = d.end + 1], checks)
    ELSE IF key = "Backspace"
         THEN IF d.start < 1 /\ checks
              THEN DeleteResult("Err", d, TRUE)
              ELSE delete_buffer_must_persist([d EXCEPT !.start = wrapping_sub(d.start, 1)],
                                              checks)
         ELSE DeleteResult("NoChange", d, FALSE)

\* TemporaryBufferDeleteText::add_char
TemporaryBufferDeleteText_add_char(d, position, key, checks) ==
    IF d.start = None
    THEN delete_buffer_open(d, position, key)
    ELSE delete_buffer_extend(d, key, checks)

\* delete_word, Backspace: the scan of text[..position] from its end for the
\* first whitespace; i is the index looked at
RECURSIVE scan_left(_, _, _)
scan_left(text, position, i) ==
    IF i < 0 THEN position
    ELSE IF is_whitespace(text[i + 1]) THEN i
    ELSE IF i = 0 THEN 0
    ELSE scan_left(text, position, i - 1)

\* delete_word, Delete: the scan of text[..position] from its start for the
\* first whitespace; i is the index looked at
RECURSIVE scan_right(_, _, _)
scan_right(text, position, i) ==
    IF i >= position THEN position
    ELSE IF is_whitespace(text[i + 1]) THEN i + 1
    ELSE IF i = Len(text) - 1 THEN i + 1
    ELSE scan_right(text, position, i + 1)

\* TemporaryBufferDeleteText::delete_word, key Backspace
delete_word_backspace(d, text, position) ==
    IF position = 0 THEN DeleteResult("NoChange", d, FALSE)
    ELSE IF d.start = None
         THEN IF position > Len(text)
              THEN DeleteResult("Err", d, TRUE)
              ELSE DeleteResult("Added",
                       [d EXCEPT !.start = scan_left(text, position, position - 1),
                                 !.end = position], FALSE)
         ELSE DeleteResult("Added", d, FALSE)

\* TemporaryBufferDeleteText::delete_word, key Delete
delete_word_delete(d, text, position) ==
    IF position >= Len(text) THEN DeleteResult("NoChange", d, FALSE)
    ELSE IF d.end = None
         THEN DeleteResult("Added",
                  [d EXCEPT !.start = position,
                            !.end = scan_right(text, position, 0)], FALSE)
         ELSE DeleteResult("Added", d, FALSE)

\* TemporaryBufferDeleteText::delete_word
TemporaryBufferDeleteText_delete_word(d, text, position, key) ==
    IF key # "Backspace" /\ key # "Delete" THEN DeleteResult("Err", d, FALSE)
    ELSE IF key = "Backspace" THEN delete_word_backspace(d, text, position)
    ELSE delete_word_delete(d, text, position)

\* TemporaryBufferDeleteText::get_deletion_range
get_deletion_range(d) ==
    IF d.start # None /\ d.end # None
    THEN [some |-> TRUE, start |-> d.start, end |-> d.end]
    ELSE [some |-> FALSE, start |-> 0, end |-> 0]

\* TemporaryBufferDeleteText::is_empty
TemporaryBufferDeleteText_is_empty(d) == d.start = None /\ d.end = None

\* TemporaryBufferDeleteText::clear
TemporaryBufferDeleteText_clear(d) == [d EXCEPT !.start = None, !.end = None]

\* --------------------------------------------------------------- Position
\* Position::move_left
move_left(pos) == IF pos.x > 0 THEN [pos EXCEPT !.x = pos.x - 1] ELSE pos

\* Position::move_right
move_right(pos) == [pos EXCEPT !.x = pos.x + 1]

\* Position::move_up
move_up(pos) == IF pos.y > 0 THEN [pos EXCEPT !.y = pos.y - 1] ELSE pos

\* Position::move_down
move_down(pos) == [pos EXCEPT !.y = pos.y + 1]

\* Position::move_to_new_line
move_to_new_line(pos) == [x |-> 0, y |-> pos.y + 1]

\* ----------------------------------------------------------------- Editor
\* struct Editor, with the build's overflow checks, whether the process has
\* panicked, and the PieceTable calls issued since the method was entered
Editor(c, tp, tab, tdb, cur, rmc, lm, oc, pan) ==
    [content |-> c, text_position |-> tp, temporary_add_buffer |-> tab,
     temporary_delete_buffer |-> tdb, cursor |-> cur, right_most_column |-> rmc,
     lines_map |-> lm, overflow_checks |-> oc, panicked |-> pan, calls |-> <<>>,
     persisted |-> <<>>]

\* a call of a PieceTable method as the Editor issues it
TableCall(op, text, position, start, end) ==
    [op |-> op, text |-> text, position |-> position, start |-> start, end |-> end]

\* the outcome of a PieceTable call the Editor issues from the method op: the
\* Result it returned (ok), and what Editor::get_text gives right before the
\* surrounding persist step and right after it
Persisted(op, ok, before, after) ==
    [op |-> op, ok |-> ok, before |-> before, after |-> after]

\* a panic: the process is gone
Panic(self) == [self EXCEPT !.panicked = TRUE]

\* String::insert_str(pos, buffer) panics
insert_str_panics(text, pos) == pos > Len(text)

\* String::replace_range(start..end, "") panics
replace_range_panics(text, start, end) == start > end \/ end > Len(text)

\* Editor::get_text; pure, so it hands back the text or the panic
Editor_get_text(self) ==
    LET text == get_text(self.content)
        tab == self.temporary_add_buffer
        tdb == self.temporary_delete_buffer
    IN  IF tab.buffer # <<>>
        THEN IF insert_str_panics(text, tab.position)
             THEN [panic |-> TRUE, text |-> <<>>]
             ELSE [panic |-> FALSE,
                   text |-> SubSeq(text, 1, tab.position) \o tab.buffer
                              \o SubSeq(text, tab.position + 1, Len(text))]
        ELSE IF ~TemporaryBufferDeleteText_is_empty(tdb) /\ get_deletion_range(tdb).some
             THEN IF replace_range_panics(text, tdb.start, tdb.end)
                  THEN [panic |-> TRUE, text |-> <<>>]
                  ELSE [panic |-> FALSE,
                        text |-> SubSeq(text, 1, tdb.start) \o SubSeq(text, tdb.end + 1, Len(text))]
             ELSE [panic |-> FALSE, text |-> text]

\* str::split("\n"): the lines of a text, one more than it has newlines
RECURSIVE split_lines(_, _)
split_lines(text, line) ==
    IF text = <<>> THEN <<line>>
    ELSE IF Head(text) = "\n" THEN <<line>> \o split_lines(Tail(text), <<>>)
    ELSE split_lines(Tail(text), Append(line, Head(text)))

\* Editor::get_text_lines
Editor_get_text_lines(text) == split_lines(text, <<>>)

\* Editor::update_lines_map
update_lines_map(self) ==
    IF self.panicked THEN self
    ELSE LET g == Editor_get_text(self)
         IN  IF g.panic THEN Panic(self)
             ELSE LET lines == Editor_get_text_lines(g.text)
                  IN  [self EXCEPT !.lines_map = [i \in 1..Len(lines) |-> Len(lines[i])]]

\* Editor::set_right_most_column
set_right_most_column(self, column) == [self EXCEPT !.right_most_column = column]

\* Editor::new
Editor_new(text, temporary_buffer_max_length, checks) ==
    LET position == IF text # <<>> THEN Len(text) ELSE 0
        editor == update_lines_map(
                     Editor(new(text),
                            position,
                            TemporaryBufferAddText_new(temporary_buffer_max_length, position),
                            TemporaryBufferDeleteText_new(temporary_buffer_max_length),
                            [x |-> 0, y |-> 0], 0, <<>>, checks, FALSE))
        last_line_length == IF editor.lines_map = <<>> THEN 0
                            ELSE editor.lines_map[Len(editor.lines_map)]
    IN  [editor EXCEPT !.cursor = [x |-> last_line_length, y |-> Len(editor.lines_map) - 1]]

\* a test that ignores force_save
must_save_unforced(tab, force_save) == Len(tab.buffer) > tab.max_length \div 2

\* Editor::persist_add_buffer: the buffer is to be written now
must_save(tab, force_save) == force_save \/ Len(tab.buffer) > tab.max_length \div 2

\* Editor::persist_add_buffer
persist_add_buffer(self, force_save) ==
    LET tab == self.temporary_add_buffer
    IN  IF self.panicked \/ tab.buffer = <<>> THEN self
        ELSE IF must_save(tab, force_save)
             THEN LET r == add_text(self.content, tab.buffer, tab.position)
                      s1 == [self EXCEPT
                                !.content = r.pt,
                                !.calls = Append(@, TableCall("add_text", tab.buffer,
                                                              tab.position, 0, 0)),
                                !.temporary_add_buffer =
                                    TemporaryBufferAddText_clear(tab, self.text_position)]
                  IN  [s1 EXCEPT !.persisted =
                          Append(@, Persisted("persist_add_buffer", r.ok,
                                              Editor_get_text(self), Editor_get_text(s1)))]
             ELSE self

\* Editor::persist_delete_buffer
persist_delete_buffer(self) ==
    LET tdb == self.temporary_delete_buffer
    IN  IF self.panicked \/ ~get_deletion_range(tdb).some THEN self
        ELSE LET r == delete_text(self.content, tdb.start, tdb.end)
                 s1 == [self EXCEPT
                           !.content = r.pt,
                           !.calls = Append(@, TableCall("delete_text", <<>>, 0,
                                                         tdb.start, tdb.end)),
                           !.temporary_delete_buffer = TemporaryBufferDeleteText_clear(tdb)]
             IN  [s1 EXCEPT !.persisted =
                     Append(@, Persisted("persist_delete_buffer", r.ok,
                                         Editor_get_text(self), Editor_get_text(s1)))]

\* Editor::persist_changes
persist_changes(self) == persist_delete_buffer(persist_add_buffer(self, TRUE))

\* Editor::do_after_move_cursor
do_after_move_cursor(self) ==
    LET s1 == persist_changes(self)
        s2 == [s1 EXCEPT !.temporary_add_buffer =
                  TemporaryBufferAddText_update_position(s1.temporary_add_buffer, s1.text_position)]
    IN  update_lines_map(s2)

\* Editor::add_char
Editor_add_char(self, c) ==
    LET s1 == IF ~TemporaryBufferDeleteText_is_empty(self.temporary_delete_buffer)
              THEN persist_delete_buffer(self) ELSE self
        s2 == IF s1.temporary_add_buffer.buffer = <<>>
              THEN [s1 EXCEPT !.temporary_add_buffer =
                       TemporaryBufferAddText_update_position(s1.temporary_add_buffer,
                                                              s1.text_position)]
              ELSE s1
        add_result == TemporaryBufferAddText_add_char(s2.temporary_add_buffer, c)
        s3 == [s2 EXCEPT !.temporary_add_buffer = add_result.buf,
                         !.text_position = s2.text_position + 1,
                         !.cursor = move_right(s2.cursor)]
        s4 == set_right_most_column(s3, s3.cursor.x)
    IN  IF add_result.result = "MustPersist" THEN persist_add_buffer(s4, TRUE) ELSE s4

\* Editor::delete_char: the deletion is taken out of the add buffer
delete_from_add_buffer(self) ==
    /\ self.temporary_add_buffer.buffer # <<>>
    /\ is_cursor_on_buffer(self.temporary_add_buffer, self.text_position)

\* a delete_char that also acts at the start of the document
Editor_delete_char_at_start(self, key) ==
    IF self.text_position >= 0
    THEN LET deleted_position == self.text_position
             r == TemporaryBufferDeleteText_add_char(self.temporary_delete_buffer,
                     deleted_position, key, self.overflow_checks)
             s1 == IF delete_from_add_buffer(self)
                   THEN [self EXCEPT !.temporary_add_buffer =
                            TemporaryBufferAddText_delete_char(self.temporary_add_buffer)]
                   ELSE IF r.panic THEN Panic(self)
                   ELSE LET s == [self EXCEPT !.temporary_delete_buffer = r.buf]
                        IN  IF r.result = "MustPersist" THEN persist_delete_buffer(s) ELSE s
         IN  IF s1.panicked THEN s1
             ELSE IF key = "Backspace"
                  THEN LET s2 == [s1 EXCEPT !.text_position = s1.text_position - 1,
                                            !.cursor = move_left(s1.cursor)]
                       IN  set_right_most_column(s2, s2.cursor.x)
                  ELSE s1
    ELSE self

\* Editor::delete_char
Editor_delete_char(self, key) ==
    IF self.text_position > 0
    THEN LET deleted_position == self.text_position
             r == TemporaryBufferDeleteText_add_char(self.temporary_delete_buffer,
                     deleted_position, key, self.overflow_checks)
             s1 == IF delete_from_add_buffer(self)
                   THEN [self EXCEPT !.temporary_add_buffer =
                            TemporaryBufferAddText_delete_char(self.temporary_add_buffer)]
                   ELSE IF r.panic THEN Panic(self)
                   ELSE LET s == [self EXCEPT !.temporary_delete_buffer = r.buf]
                        IN  IF r.result = "MustPersist" THEN persist_delete_buffer(s) ELSE s
         IN  IF s1.panicked THEN s1
             ELSE IF key = "Backspace"
                  THEN LET s2 == [s1 EXCEPT !.text_position = s1.text_position - 1,
                                            !.cursor = move_left(s1.cursor)]
                       IN  set_right_most_column(s2, s2.cursor.x)
                  ELSE s1
    ELSE self

\* a delete_word that leaves text_position where it is after a Backspace
Editor_delete_word_in_place(self, key) ==
    LET s1 == IF self.temporary_add_buffer.buffer # <<>>
              THEN persist_add_buffer(self, TRUE) ELSE self
        g == Editor_get_text(s1)
        r == TemporaryBufferDeleteText_delete_word(s1.temporary_delete_buffer,
                 g.text, s1.text_position, key)
        s2 == [s1 EXCEPT !.temporary_delete_buffer = r.buf]
    IN  IF g.panic \/ r.panic THEN Panic(s1)
        ELSE IF r.result = "MustPersist" THEN persist_delete_buffer(s2) ELSE s2

\* Editor::delete_word
Editor_delete_word(self, key) ==
    LET s1 == IF self.temporary_add_buffer.buffer # <<>>
              THEN persist_add_buffer(self, TRUE) ELSE self
        g == Editor_get_text(s1)
        r == TemporaryBufferDeleteText_delete_word(s1.temporary_delete_buffer,
                 g.text, s1.text_position, key)
        s2 == [s1 EXCEPT !.temporary_delete_buffer = r.buf]
        range == get_deletion_range(s2.temporary_delete_buffer)
        s3 == IF key = "Backspace" /\ range.some
              THEN [s2 EXCEPT !.text_position = range.start,
                              !.temporary_add_buffer =
                                  TemporaryBufferAddText_update_position(
                                      s2.temporary_add_buffer, range.start)]
              ELSE s2
    IN  IF g.panic \/ r.panic THEN Panic(s1)
        ELSE IF r.result = "MustPersist" THEN persist_delete_buffer(s3) ELSE s3

\* Editor::move_cursor_left
Editor_move_cursor_left(self) ==
    IF self.text_position > 0
    THEN LET s1 == [self EXCEPT !.text_position = self.text_position - 1,
                                !.cursor = move_left(self.cursor)]
         IN  do_after_move_cursor(set_right_most_column(s1, s1.cursor.x))
    ELSE self

\* Editor::move_cursor_right
Editor_move_cursor_right(self) ==
    IF self.text_position < total_length(self.content)
    THEN LET s1 == [self EXCEPT !.text_position = self.text_position + 1,
                                !.cursor = move_right(self.cursor)]
         IN  do_after_move_cursor(set_right_most_column(s1, s1.cursor.x))
    ELSE self

\* Editor::update_text_position_after_cursor_move
RECURSIVE chars_count_up_to(_, _)
chars_count_up_to(lines, n) ==
    IF n = 0 \/ lines = <<>> THEN 0
    ELSE Head(lines) + 1 + chars_count_up_to(Tail(lines), n - 1)

update_text_position_after_cursor_move(self) ==
    [self EXCEPT !.text_position =
        chars_count_up_to(self.lines_map, self.cursor.y) + self.cursor.x]

\* Editor::handle_change_of_cursor_y_position: the column on the new line
column_on_line(line_length, x, right_most) ==
    IF line_length < x THEN line_length ELSE right_most

\* Editor::handle_change_of_cursor_y_position
handle_change_of_cursor_y_position(self) ==
    LET line_index == self.cursor.y
        line_length == IF line_index < Len(self.lines_map)
                       THEN self.lines_map[line_index + 1] ELSE 0
    IN  update_text_position_after_cursor_move(
            [self EXCEPT !.cursor.x =
                column_on_line(line_length, self.cursor.x, self.right_most_column)])

\* Editor::move_cursor_up
Editor_move_cursor_up(self) ==
    do_after_move_cursor(
        handle_change_of_cursor_y_position([self EXCEPT !.cursor = move_up(self.cursor)]))

\* Editor::move_cursor_down
Editor_move_cursor_down(self) ==
    do_after_move_cursor(
        handle_change_of_cursor_y_position([self EXCEPT !.cursor = move_down(self.cursor)]))

\* Editor::add_new_line
Editor_add_new_line(self) ==
    LET s1 == persist_changes(self)
        r == add_text(s1.content, <<"\n">>, s1.text_position)
        s2 == [s1 EXCEPT !.content = r.pt,
                         !.calls = Append(@, TableCall("add_text", <<"\n">>, s1.text_position, 0, 0)),
                         !.persisted = Append(@, Persisted("add_new_line", r.ok,
                                                           Editor_get_text(s1),
                                                           Editor_get_text(
                                                               [s1 EXCEPT !.content = r.pt]))),
                         !.cursor = move_to_new_line(s1.cursor),
                         !.text_position = s1.text_position + 1]
        s3 == [s2 EXCEPT !.temporary_add_buffer =
                  TemporaryBufferAddText_update_position(s2.temporary_add_buffer,
                                                         s2.text_position)]
    IN  set_right_most_column(update_lines_map(s3), 0)

\* OutputManager::refresh_screen, called by main after every key: it reads
\* get_text_lines() and get_text() and so panics when Editor::get_text does
refresh_screen(self) ==
    IF self.panicked THEN self
    ELSE IF Editor_get_text(self).panic THEN Panic(self) ELSE self

\* ------------------------------------------------- reference string model
\* text spliced into a plain string at position
RefInsert(s, text, position) ==
    SubSeq(s, 1, position) \o text \o SubSeq(s, position + 1, Len(s))

\* [start, end) removed from a plain string
RefRemove(s, start, end) == SubSeq(s, 1, start) \o SubSeq(s, end + 1, Len(s))

\* ------------------------------------------- the piece table as a machine
\* the table held in the variables
content == PieceTable(original_buffer, add_buffer, pieces)

SetContent(pt) ==
    /\ original_buffer' = pt.original_buffer
    /\ add_buffer' = pt.add_buffer
    /\ pieces' = pt.pieces

\* a call and its outcome
Call(op, text, position, start, end, key, ok) ==
    [op |-> op, text |-> text, position |-> position, start |-> start, end |-> end,
     key |-> key, ok |-> ok]

\* the ranges handed to delete_text on a document of total characters: every
\* start <= end up to one past the end of the document, and every range
\* inverted by one
DeleteRanges(total) ==
    {<<start, end>> \in (0..(total + 1)) \X (0..(total + 1)) : start <= end + 1}

\* no add_char call has been made since the last other call
NoStreak == [n |-> 0, position |-> 0, text |-> <<>>]

\* the add_char calls made in a row, counted from a call that found both
\* temporary buffers empty: how many, the text_position before the first, and
\* the characters; a run of max_length calls is complete and the next starts anew
NextStreak(op, c) ==
    IF op # "add_char" THEN NoStreak
    ELSE IF streak.n >= 1 /\ streak.n < temporary_add_buffer.max_length
         THEN [n |-> streak.n + 1, position |-> streak.position, text |-> streak.text \o c]
         ELSE IF /\ temporary_add_buffer.buffer = <<>>
                 /\ TemporaryBufferDeleteText_is_empty(temporary_delete_buffer)
              THEN [n |-> 1, position |-> text_position, text |-> c]
              ELSE NoStreak

\* a piece table on its own: PieceTable::new(text), no editor around it
Init ==
    /\ \E text \in InitTexts :
          /\ original_buffer = new(text).original_buffer
          /\ add_buffer = new(text).add_buffer
          /\ pieces = new(text).pieces
          /\ ref_text = text
    /\ text_position = 0
    /\ temporary_add_buffer = TemporaryBufferAddText_new(0, 0)
    /\ temporary_delete_buffer = TemporaryBufferDeleteText_new(0)
    /\ cursor = [x |-> 0, y |-> 0]
    /\ right_most_column = 0
    /\ lines_map = <<>>
    /\ overflow_checks = TRUE
    /\ panicked = FALSE
    /\ last = Call("new", <<>>, 0, 0, 0, "", TRUE)
    /\ nops = 0
    /\ ref_position = 0
    /\ only_basic = TRUE
    /\ inserted = <<>>
    /\ table_calls = <<>>
    /\ persisted = <<>>
    /\ streak = NoStreak
    /\ returned = ""

\* one add_text(text, position) call, valid or not
AddText ==
    /\ nops < MaxOps
    /\ \E text \in InsertTexts(nops), position \in 0..(total_length(content) + 1) :
          LET r == add_text(content, text, position)
          IN  /\ SetContent(r.pt)
              /\ last' = Call("add_text", text, position, 0, 0, "", r.ok)
              /\ ref_text' = IF position <= Len(ref_text)
                             THEN RefInsert(ref_text, text, position) ELSE ref_text
              /\ inserted' = IF r.ok THEN inserted \o text ELSE inserted
    /\ nops' = nops + 1
    /\ UNCHANGED <<editor_vars, ref_position, only_basic, table_calls, persisted, streak, returned>>

\* one delete_text(start, end) call, valid or not
DeleteText ==
    /\ nops < MaxOps
    /\ \E range \in DeleteRanges(total_length(content)) :
          LET start == range[1]
              end == range[2]
              r == delete_text(content, start, end)
          IN  /\ SetContent(r.pt)
              /\ last' = Call("delete_text", <<>>, 0, start, end, "", r.ok)
              /\ ref_text' = IF start <= end /\ end <= Len(ref_text)
                             THEN RefRemove(ref_text, start, end) ELSE ref_text
    /\ nops' = nops + 1
    /\ UNCHANGED <<editor_vars, ref_position, only_basic, inserted, table_calls, persisted, streak, returned>>

Next == AddText \/ DeleteText

Spec == Init /\ [][Next]_vars

\* ------------------------------------------------ the editor as a machine
\* the editor held in the variables
editor ==
    Editor(content, text_position, temporary_add_buffer, temporary_delete_buffer,
           cursor, right_most_column, lines_map, overflow_checks, panicked)

SetEditor(e) ==
    /\ SetContent(e.content)
    /\ text_position' = e.text_position
    /\ temporary_add_buffer' = e.temporary_add_buffer
    /\ temporary_delete_buffer' = e.temporary_delete_buffer
    /\ cursor' = e.cursor
    /\ right_most_column' = e.right_most_column
    /\ lines_map' = e.lines_map
    /\ overflow_checks' = e.overflow_checks
    /\ panicked' = e.panicked
    /\ table_calls' = e.calls
    /\ persisted' = e.persisted

\* the reference editor: a plain string and a cursor
SetRef(text, position) ==
    /\ ref_text' = (IF only_basic' THEN text ELSE <<>>)
    /\ ref_position' = (IF only_basic' THEN position ELSE 0)

\* one key of main's loop: the handler runs, then the screen is refreshed
Key(op, c, key, e) ==
    /\ ~panicked
    /\ nops < MaxKeys
    /\ SetEditor(refresh_screen(e))
    /\ last' = Call(op, c, 0, 0, 0, key, TRUE)
    /\ nops' = nops + 1
    /\ streak' = NextStreak(op, c)
    /\ UNCHANGED <<inserted, returned>>

\* main: Editor::new(initial_text, max_length)
InitEditor ==
    /\ \E text \in EditorInitTexts, max_length \in 1..MaxBufferLength, oc \in BOOLEAN :
          LET e == Editor_new(text, max_length, oc)
          IN  /\ original_buffer = e.content.original_buffer
              /\ add_buffer = e.content.add_buffer
              /\ pieces = e.content.pieces
              /\ text_position = e.text_position
              /\ temporary_add_buffer = e.temporary_add_buffer
              /\ temporary_delete_buffer = e.temporary_delete_buffer
              /\ cursor = e.cursor
              /\ right_most_column = e.right_most_column
              /\ lines_map = e.lines_map
              /\ overflow_checks = e.overflow_checks
              /\ panicked = e.panicked
              /\ ref_text = text
              /\ ref_position = Len(text)
    /\ last = Call("new", <<>>, 0, 0, 0, "", TRUE)
    /\ nops = 0
    /\ only_basic = TRUE
    /\ inserted = <<>>
    /\ table_calls = <<>>
    /\ persisted = <<>>
    /\ streak = NoStreak
    /\ returned = ""

\* KeyCode::Char(c)
KeyChar ==
    \E c \in TypedChars :
        /\ Key("add_char", <<c>>, "", Editor_add_char(editor, c))
        /\ only_basic' = only_basic
        /\ SetRef(RefInsert(ref_text, <<c>>, ref_position), ref_position + 1)

\* KeyCode::Backspace
KeyBackspace ==
    /\ Key("delete_char", <<>>, "Backspace", Editor_delete_char(editor, "Backspace"))
    /\ only_basic' = only_basic
    /\ IF ref_position > 0
       THEN SetRef(RefRemove(ref_text, ref_position - 1, ref_position), ref_position - 1)
       ELSE SetRef(ref_text, ref_position)

\* KeyCode::Delete
KeyDelete ==
    /\ Key("delete_char", <<>>, "Delete", Editor_delete_char(editor, "Delete"))
    /\ only_basic' = only_basic
    /\ IF ref_position > 0 /\ ref_position < Len(ref_text)
       THEN SetRef(RefRemove(ref_text, ref_position, ref_position + 1), ref_position)
       ELSE SetRef(ref_text, ref_position)

\* Ctrl-h, Ctrl-w
KeyDeleteWordBackspace ==
    /\ Key("delete_word", <<>>, "Backspace", Editor_delete_word(editor, "Backspace"))
    /\ only_basic' = FALSE
    /\ SetRef(ref_text, ref_position)

\* Ctrl-Delete
KeyDeleteWordDelete ==
    /\ Key("delete_word", <<>>, "Delete", Editor_delete_word(editor, "Delete"))
    /\ only_basic' = FALSE
    /\ SetRef(ref_text, ref_position)

\* KeyCode::Enter
KeyEnter ==
    /\ Key("add_new_line", <<>>, "", Editor_add_new_line(editor))
    /\ only_basic' = only_basic
    /\ SetRef(RefInsert(ref_text, <<"\n">>, ref_position), ref_position + 1)

\* KeyCode::Left
KeyLeft ==
    /\ Key("move_cursor_left", <<>>, "", Editor_move_cursor_left(editor))
    /\ only_basic' = only_basic
    /\ SetRef(ref_text, IF ref_position > 0 THEN ref_position - 1 ELSE ref_position)

\* KeyCode::Right
KeyRight ==
    /\ Key("move_cursor_right", <<>>, "", Editor_move_cursor_right(editor))
    /\ only_basic' = only_basic
    /\ SetRef(ref_text, IF ref_position < Len(ref_text) THEN ref_position + 1 ELSE ref_position)

\* KeyCode::Up
KeyUp ==
    /\ Key("move_cursor_up", <<>>, "", Editor_move_cursor_up(editor))
    /\ only_basic' = FALSE
    /\ SetRef(ref_text, ref_position)

\* KeyCode::Down
KeyDown ==
    /\ Key("move_cursor_down", <<>>, "", Editor_move_cursor_down(editor))
    /\ only_basic' = FALSE
    /\ SetRef(ref_text, ref_position)

NextEditor ==
    \/ KeyChar
    \/ KeyBackspace
    \/ KeyDelete
    \/ KeyDeleteWordBackspace
    \/ KeyDeleteWordDelete
    \/ KeyEnter
    \/ KeyLeft
    \/ KeyRight
    \/ KeyUp
    \/ KeyDown

SpecEditor == InitEditor /\ [][NextEditor]_vars

\* ------------------------------------- the temporary buffers as a machine
\* the keys handed to the delete buffer: the two it knows and one other
Keys == {"Backspace", "Delete", "Char"}

\* the positions handed to the buffers
BufferPositions == 0..MaxInitLen

\* the texts handed to delete_word
WordTexts == {<<>>, <<"a", "b">>, <<"a", " ", "b">>, <<"a", " ", "b", "\n", "c">>}

\* a call on one of the two buffers, made outside any Editor
BufferCall(op, c, position, key, result) ==
    /\ ~panicked
    /\ nops < MaxOps
    /\ last' = Call(op, c, position, 0, 0, key, TRUE)
    /\ returned' = result
    /\ nops' = nops + 1
    /\ UNCHANGED <<table_vars, text_position, cursor, right_most_column, lines_map,
                   overflow_checks, ref_text, ref_position, only_basic, inserted,
                   table_calls, persisted, streak>>

\* TemporaryBufferAddText::new(max_length, position) and
\* TemporaryBufferDeleteText::new(max_length), no editor around them
InitBuffers ==
    /\ \E max_length \in 1..MaxBufferLength, position \in BufferPositions :
          /\ temporary_add_buffer = TemporaryBufferAddText_new(max_length, position)
          /\ temporary_delete_buffer = TemporaryBufferDeleteText_new(max_length)
    /\ overflow_checks \in BOOLEAN
    /\ original_buffer = <<>>
    /\ add_buffer = <<>>
    /\ pieces = <<>>
    /\ text_position = 0
    /\ cursor = [x |-> 0, y |-> 0]
    /\ right_most_column = 0
    /\ lines_map = <<>>
    /\ panicked = FALSE
    /\ last = Call("new", <<>>, 0, 0, 0, "", TRUE)
    /\ nops = 0
    /\ ref_text = <<>>
    /\ ref_position = 0
    /\ only_basic = TRUE
    /\ inserted = <<>>
    /\ table_calls = <<>>
    /\ persisted = <<>>
    /\ streak = NoStreak
    /\ returned = ""

\* temporary_add_buffer.add_char(c)
BufferAddChar ==
    \E c \in TypedChars :
        LET r == TemporaryBufferAddText_add_char(temporary_add_buffer, c)
        IN  /\ BufferCall("add.add_char", <<c>>, 0, "", r.result)
            /\ temporary_add_buffer' = r.buf
            /\ UNCHANGED <<temporary_delete_buffer, panicked>>

\* temporary_add_buffer.update_position(position)
BufferUpdatePosition ==
    \E position \in BufferPositions :
        /\ BufferCall("add.update_position", <<>>, position, "", "")
        /\ temporary_add_buffer' =
               TemporaryBufferAddText_update_position(temporary_add_buffer, position)
        /\ UNCHANGED <<temporary_delete_buffer, panicked>>

\* temporary_add_buffer.delete_char()
BufferDeleteChar ==
    /\ BufferCall("add.delete_char", <<>>, 0, "", "")
    /\ temporary_add_buffer' = TemporaryBufferAddText_delete_char(temporary_add_buffer)
    /\ UNCHANGED <<temporary_delete_buffer, panicked>>

\* temporary_add_buffer.clear(position)
BufferClear ==
    \E position \in BufferPositions :
        /\ BufferCall("add.clear", <<>>, position, "", "")
        /\ temporary_add_buffer' = TemporaryBufferAddText_clear(temporary_add_buffer, position)
        /\ UNCHANGED <<temporary_delete_buffer, panicked>>

\* temporary_delete_buffer.add_char(position, key)
RangeAddChar ==
    \E position \in BufferPositions, key \in Keys :
        LET r == TemporaryBufferDeleteText_add_char(temporary_delete_buffer, position, key,
                                                    overflow_checks)
        IN  /\ BufferCall("delete.add_char", <<>>, position, key, r.result)
            /\ temporary_delete_buffer' = r.buf
            /\ panicked' = r.panic
            /\ UNCHANGED temporary_add_buffer

\* temporary_delete_buffer.delete_word(text, position, key)
RangeDeleteWord ==
    \E text \in WordTexts, key \in Keys :
        \E position \in 0..(Len(text) + 1) :
            LET r == TemporaryBufferDeleteText_delete_word(temporary_delete_buffer, text,
                                                           position, key)
            IN  /\ BufferCall("delete.delete_word", text, position, key, r.result)
                /\ temporary_delete_buffer' = r.buf
                /\ panicked' = r.panic
                /\ UNCHANGED temporary_add_buffer

\* temporary_delete_buffer.clear()
RangeClear ==
    /\ BufferCall("delete.clear", <<>>, 0, "", "")
    /\ temporary_delete_buffer' = TemporaryBufferDeleteText_clear(temporary_delete_buffer)
    /\ UNCHANGED <<temporary_add_buffer, panicked>>

NextBuffers ==
    \/ BufferAddChar
    \/ BufferUpdatePosition
    \/ BufferDeleteChar
    \/ BufferClear
    \/ RangeAddChar
    \/ RangeDeleteWord
    \/ RangeClear

SpecBuffers == InitBuffers /\ [][NextBuffers]_vars

\* ------------------------------------------------------------------ claims
\* the successful call that has just been made was a non-empty add_text
DidAddText == last.op = "add_text" /\ last.ok /\ last.text # <<>>

\* the successful call that has just been made was a non-empty delete_text
DidDeleteText == last.op = "delete_text" /\ last.ok /\ last.start < last.end

LengthsAgree ==
    /\ total_length(content) = Len(get_text(content))
    /\ total_length(content) = SumLengths(pieces)

C3_NoEmptyPieces ==
    (last.op \in {"add_text", "delete_text"} /\ last.ok)
        => \A i \in 1..Len(pieces) : pieces[i].length > 0

\* C4: every piece lies inside the buffer it names: start + length <= the
\* length of original_buffer (Original) or add_buffer (Added).
C4_PiecesInRange ==
    \A i \in 1..Len(pieces) : SliceInRange(BufferOf(content, pieces[i]), pieces[i])

\* C4 witness: an Original piece and an Added piece that both start inside
\* their buffer
C4_Witness ==
    /\ \E i \in 1..Len(pieces) : pieces[i].buffer_type = "Original" /\ pieces[i].start > 0
    /\ \E i \in 1..Len(pieces) : pieces[i].buffer_type = "Added" /\ pieces[i].start > 0

\* C5: add_text of a non-empty text returns Err exactly when position >
\* total_length(), and then leaves both buffers and the piece list unchanged.
C5_AddTextError ==
    [][(last'.op = "add_text" /\ last'.text # <<>>)
         => /\ (~last'.ok) <=> (last'.position > total_length(content))
            /\ (~last'.ok) => UNCHANGED table_vars]_vars

\* C5 witness: a rejected add_text on a table that already holds inserted text
C5_Witness ==
    /\ last.op = "add_text"
    /\ ~last.ok
    /\ last.text # <<>>
    /\ add_buffer # <<>>

\* C6: delete_text(start, end) returns Err exactly when start > total_length()
\* or end > total_length() or start > end, and then leaves the table unchanged.
C6_DeleteTextError ==
    [][(last'.op = "delete_text")
         => /\ (~last'.ok) <=> \/ last'.start > total_length(content)
                               \/ last'.end > total_length(content)
                               \/ last'.start > last'.end
            /\ (~last'.ok) => UNCHANGED table_vars]_vars

\* C6 witness: an inverted range rejected on a table of several pieces
C6_Witness ==
    /\ last.op = "delete_text"
    /\ ~last.ok
    /\ last.start > last.end
    /\ last.start <= total_length(content)
    /\ Len(pieces) >= 2

\* C7: add_text("", p) and delete_text(p, p) with p <= total_length() return
\* Ok and leave both buffers and the piece list exactly as they were.
C7_EmptyEdit ==
    [][(\/ (last'.op = "add_text" /\ last'.text = <<>>
               /\ last'.position <= total_length(content))
        \/ (last'.op = "delete_text" /\ last'.start = last'.end
               /\ last'.start <= total_length(content)))
         => (last'.ok /\ UNCHANGED table_vars)]_vars

\* C7 witness: an empty range deleted inside a table of several pieces
C7_Witness ==
    /\ last.op = "delete_text"
    /\ last.ok
    /\ last.start = last.end
    /\ last.start > 0
    /\ Len(pieces) >= 2

\* C8: original_buffer never changes; add_buffer changes only by a successful
\* non-empty add_text, which appends the text at its end, so that it is always
\* the inserted texts in call order; delete_text changes neither buffer; the
\* new Added piece covers [old length, old length + len(text)) and every other
\* Added piece stays inside the old add_buffer.
C8_BuffersAppendOnly ==
    /\ add_buffer = inserted
    /\ [][/\ add_buffer' = inserted'
          /\ original_buffer' = original_buffer
          /\ (add_buffer' # add_buffer) => DidAddText'
          /\ (last'.op = "delete_text") => add_buffer' = add_buffer
          /\ DidAddText' =>
               LET newp == Piece("Added", Len(add_buffer), Len(last'.text))
               IN  /\ add_buffer' = add_buffer \o last'.text
                   /\ \E i \in 1..Len(pieces') : pieces'[i] = newp
                   /\ \A i \in 1..Len(pieces') :
                         (pieces'[i].buffer_type = "Added" /\ pieces'[i] # newp)
                            => pieces'[i].start + pieces'[i].length <= Len(add_buffer)]_vars

\* C8 witness: a second insertion, appended behind the first
C8_Witness ==
    /\ DidAddText
    /\ Len(add_buffer) > Len(last.text)
    /\ Len(pieces) >= 3

\* C9: after every command of a run of add_char, delete_char, move_cursor_left,
\* move_cursor_right and add_new_line, get_text() and text_position are those
\* of the reference editor that applies each command at once at the cursor.
C9_EditorRefinement ==
    (only_basic /\ ~panicked)
        => /\ Editor_get_text(editor).text = ref_text
           /\ text_position = ref_position

\* C10: the add buffer and the delete buffer are never both non-empty.
C10_BuffersExclusive ==
    ~(/\ temporary_add_buffer.buffer # <<>>
      /\ ~TemporaryBufferDeleteText_is_empty(temporary_delete_buffer))

\* the text Editor::get_text() shows: the piece-table text with the pending
\* add buffer inserted or the pending delete range removed
effective_text == Editor_get_text(editor).text

\* the rendering of the state does not abort
renders == ~panicked /\ ~Editor_get_text(editor).panic

\* the line lengths of a text split on the newline character
line_lengths(text) ==
    [i \in 1..Len(Editor_get_text_lines(text)) |-> Len(Editor_get_text_lines(text)[i])]

\* C11: no sequence of Editor mutators, each followed by the renderer's
\* get_text() / get_text_lines(), aborts the process.
C11_NeverAborts == ~panicked

\* C12: in every state 0 <= text_position <= the length of the effective
\* document, also after move_cursor_right while a deletion is pending.
C12_PositionInText ==
    renders => (0 <= text_position /\ text_position <= Len(effective_text))

\* C13: the cursor (row, col) is the line and column of text_position in the
\* effective text: text_position = sum over i < row of (length of line i + 1)
\* + col.
C13_CursorMatchesPosition ==
    renders =>
        text_position = chars_count_up_to(line_lengths(effective_text), cursor.y) + cursor.x

\* C14: after every mutator and every cursor move lines_map is the list of
\* line lengths of get_text() split on the newline character.
C14_LinesMapFresh == renders => lines_map = line_lengths(effective_text)

\* C15: of max_length add_char calls in a row that start with both temporary
\* buffers empty, the first max_length - 1 issue no PieceTable call and leave
\* the piece table unchanged, and the last issues exactly one call: add_text
\* with all max_length characters at the text_position before the first.
C15_OneFlushPerFullBuffer ==
    [][(last'.op = "add_char" /\ streak'.n >= 1) =>
          IF streak'.n < temporary_add_buffer.max_length
          THEN table_calls' = <<>> /\ UNCHANGED table_vars
          ELSE /\ streak'.n = temporary_add_buffer.max_length
               /\ Len(streak'.text) = temporary_add_buffer.max_length
               /\ table_calls' = <<TableCall("add_text", streak'.text, streak'.position, 0, 0)>>
               /\ content' = add_text(content, streak'.text, streak'.position).pt]_vars

\* C15 witness: a buffer of two or more characters, typed behind existing
\* text, has just been written to the piece table by the call that filled it
C15_Witness ==
    /\ last.op = "add_char"
    /\ streak.n = temporary_add_buffer.max_length
    /\ streak.n >= 2
    /\ streak.position > 0
    /\ table_calls = <<TableCall("add_text", streak.text, streak.position, 0, 0)>>
    /\ add_buffer = streak.text

\* C16: the pending deletion range is absent or has start <= end, whatever
\* delete_char and delete_word calls built it.
C16_RangeNotInverted ==
    get_deletion_range(temporary_delete_buffer).some
        => temporary_delete_buffer.start <= temporary_delete_buffer.end

\* C17: TemporaryBufferAddText.add_char never returns Err: in every state the
\* add buffer holds fewer than max_length bytes, so the call Editor.add_char
\* makes on it (after at most re-anchoring it) finds room.
C17_AddBufferNeverFull ==
    /\ ~add_buffer_full(temporary_add_buffer)
    /\ [][/\ ~add_buffer_full(temporary_add_buffer')
          /\ last'.op = "add_char" =>
                TemporaryBufferAddText_add_char(temporary_add_buffer, last'.text[1]).result
                    # "Err"]_vars

\* C17 witness: a buffer of two or more characters has been filled and
\* written out for the second time
C17_Witness ==
    /\ last.op = "add_char"
    /\ temporary_add_buffer.max_length >= 2
    /\ temporary_add_buffer.buffer = <<>>
    /\ table_calls # <<>>
    /\ table_calls[Len(table_calls)].op = "add_text"
    /\ Len(table_calls[Len(table_calls)].text) = temporary_add_buffer.max_length
    /\ Len(add_buffer) >= 2 * temporary_add_buffer.max_length

\* the call that has just been made was move_cursor_left or move_cursor_right
DidMoveSideways == last.op \in {"move_cursor_left", "move_cursor_right"}

\* C18: after every call of move_cursor_left or move_cursor_right both
\* temporary buffers are empty, every edit that was pending before the call
\* has been handed to the piece table, and the add buffer's anchor is
\* text_position.
C18_MoveCommits ==
    [][DidMoveSideways' =>
          /\ temporary_add_buffer'.buffer = <<>>
          /\ TemporaryBufferDeleteText_is_empty(temporary_delete_buffer')
          /\ temporary_add_buffer.buffer # <<>> =>
                \E i \in 1..Len(table_calls') :
                    table_calls'[i] = TableCall("add_text", temporary_add_buffer.buffer,
                                                temporary_add_buffer.position, 0, 0)
          /\ get_deletion_range(temporary_delete_buffer).some =>
                \E i \in 1..Len(table_calls') :
                    table_calls'[i] = TableCall("delete_text", <<>>, 0,
                                                temporary_delete_buffer.start,
                                                temporary_delete_buffer.end)
          /\ temporary_add_buffer'.position = text_position']_vars

\* C19: when Editor.add_char(c) is called while the delete buffer holds a
\* range [s, e), the first thing it does is delete_text(s, e), which removes
\* the range from the piece-table text; the delete buffer is emptied; the
\* character is buffered (or written) at text_position; and afterwards
\* get_text() is the text shown before with c inserted at the cursor.
C19_AddCharAfterDeletion ==
    [][(last'.op = "add_char" /\ get_deletion_range(temporary_delete_buffer).some) =>
          LET s == temporary_delete_buffer.start
              e == temporary_delete_buffer.end
              removed == delete_text(content, s, e)
          IN  /\ table_calls' # <<>>
              /\ table_calls'[1] = TableCall("delete_text", <<>>, 0, s, e)
              /\ removed.ok
              /\ get_text(removed.pt) = RefRemove(get_text(content), s, e)
              /\ TemporaryBufferDeleteText_is_empty(temporary_delete_buffer')
              /\ IF temporary_add_buffer'.buffer # <<>>
                 THEN temporary_add_buffer'.position = text_position
                 ELSE table_calls'[Len(table_calls')] =
                          TableCall("add_text", last'.text, text_position, 0, 0)
              /\ text_position <= Len(effective_text)
              /\ ~panicked' =>
                    effective_text' = RefInsert(effective_text, last'.text, text_position)]_vars

\* C20: add_new_line, called with text_position = p on the effective text T,
\* leaves both temporary buffers empty, makes get_text() equal to
\* T[0..p] + newline + T[p..], sets text_position to p + 1, puts the cursor
\* at column 0 of the next row, anchors the add buffer at p + 1 and leaves
\* lines_map equal to the line lengths of the new text.
C20_AddNewLine ==
    [][(last'.op = "add_new_line") =>
          /\ temporary_add_buffer'.buffer = <<>>
          /\ TemporaryBufferDeleteText_is_empty(temporary_delete_buffer')
          /\ text_position <= Len(effective_text)
          /\ get_text(content)' = RefInsert(effective_text, <<"\n">>, text_position)
          /\ text_position' = text_position + 1
          /\ cursor' = [x |-> 0, y |-> cursor.y + 1]
          /\ temporary_add_buffer'.position = text_position + 1
          /\ lines_map' = line_lengths(get_text(content)')]_vars

\* the call that has just been made was move_cursor_up or move_cursor_down
DidMoveVertically == last.op \in {"move_cursor_up", "move_cursor_down"}

\* C21: after move_cursor_up or move_cursor_down the cursor is on a line of
\* the text, its column is the remembered right-most column if that line is
\* at least that long and the line's length otherwise, and text_position is
\* the offset of that row and column.
C21_VerticalMoveColumn ==
    [][DidMoveVertically' =>
          LET lens == line_lengths(effective_text)
              row == cursor'.y
          IN  /\ row < Len(lens)
              /\ cursor'.x = (IF lens[row + 1] >= right_most_column
                              THEN right_most_column ELSE lens[row + 1])
              /\ cursor'.x <= lens[row + 1]
              /\ text_position' = chars_count_up_to(lens, row) + cursor'.x]_vars

\* C22: update_position is applied only to an empty add buffer; while the
\* buffer stays non-empty its position does not change and its content
\* changes only by a character appended or removed at its end.
C22_AnchorFixedWhileNonEmpty ==
    /\ ~temporary_add_buffer.moved_non_empty
    /\ [][/\ ~temporary_add_buffer'.moved_non_empty
          /\ (temporary_add_buffer.buffer # <<>> /\ temporary_add_buffer'.buffer # <<>>) =>
                LET old == temporary_add_buffer.buffer
                    now == temporary_add_buffer'.buffer
                IN  /\ temporary_add_buffer'.position = temporary_add_buffer.position
                    /\ \/ now = old
                       \/ Len(now) = Len(old) + 1 /\ SubSeq(now, 1, Len(old)) = old
                       \/ Len(old) = Len(now) + 1 /\ SubSeq(old, 1, Len(now)) = now]_vars

\* C22 witness: a delete_char call has left the non-empty add buffer, anchored
\* behind existing text, in place
C22_Witness ==
    /\ last.op = "delete_char"
    /\ temporary_add_buffer.buffer # <<>>
    /\ temporary_add_buffer.position > 0
    /\ ~temporary_add_buffer.moved_non_empty

\* C23: TemporaryBufferAddText.add_char(c) on a buffer that holds max_length
\* bytes returns Err and leaves the buffer as it is; otherwise it appends c
\* and returns MustPersist exactly when the new length is max_length and
\* Added otherwise; it never changes position, nor the piece table.
C23_BufferAddChar ==
    [][(last'.op = "add.add_char") =>
          LET b == temporary_add_buffer
              b1 == temporary_add_buffer'
          IN  /\ b1.position = b.position
              /\ b1.max_length = b.max_length
              /\ UNCHANGED table_vars
              /\ IF Len(b.buffer) = b.max_length
                 THEN returned' = "Err" /\ b1 = b
                 ELSE /\ b1.buffer = b.buffer \o last'.text
                      /\ (returned' = "MustPersist") <=> (Len(b1.buffer) = b.max_length)
                      /\ (returned' = "Added") <=> (Len(b1.buffer) # b.max_length)]_vars

\* C23 witness: a character refused by a buffer of two or more characters
C23_Witness ==
    /\ last.op = "add.add_char"
    /\ returned = "Err"
    /\ Len(temporary_add_buffer.buffer) = temporary_add_buffer.max_length
    /\ temporary_add_buffer.max_length >= 2

\* C24: TemporaryBufferAddText.delete_char() on a non-empty buffer removes
\* exactly the last buffered character, whatever the anchor position, and
\* leaves position unchanged; on an empty buffer it changes nothing.
C24_BufferDeleteChar ==
    [][(last'.op = "add.delete_char") =>
          LET b == temporary_add_buffer
              b1 == temporary_add_buffer'
          IN  /\ b1.position = b.position
              /\ IF b.buffer # <<>>
                 THEN b1.buffer = SubSeq(b.buffer, 1, Len(b.buffer) - 1)
                 ELSE b1 = b]_vars

\* the call that has just been made was TemporaryBufferDeleteText.add_char
DidRangeAddChar == last.op = "delete.add_char"

\* C25: the transition table of TemporaryBufferDeleteText.add_char(position,
\* key).  No range: Backspace at 0 returns NoChange and opens nothing,
\* Backspace at p > 0 opens [p-1, p), Delete opens [p, p+1).  A range [s, e):
\* Delete gives [s, e+1), Backspace gives [s-1, e), any other key returns
\* NoChange and leaves the range.
C25_RangeAddCharTable ==
    [][DidRangeAddChar' =>
          LET d == temporary_delete_buffer
              d1 == temporary_delete_buffer'
              p == last'.position
              key == last'.key
          IN  IF TemporaryBufferDeleteText_is_empty(d)
              THEN /\ (key = "Backspace" /\ p = 0) => (returned' = "NoChange" /\ d1 = d)
                   /\ (key = "Backspace" /\ p > 0) => (d1.start = p - 1 /\ d1.end = p)
                   /\ (key = "Delete") => (d1.start = p /\ d1.end = p + 1)
              ELSE /\ (key = "Delete") => (d1.start = d.start /\ d1.end = d.end + 1)
                   /\ (key = "Backspace") => (d1.start = d.start - 1 /\ d1.end = d.end)
                   /\ (key \notin {"Backspace", "Delete"})
                         => (returned' = "NoChange" /\ d1 = d)]_vars

\* C26: with a range [s, e) pending, add_char(position, key) with position < s
\* or position > e returns NoChange or an error and leaves the range as it
\* is.
C26_RangeAddCharAdjacent ==
    [][(/\ DidRangeAddChar'
        /\ get_deletion_range(temporary_delete_buffer).some
        /\ \/ last'.position < temporary_delete_buffer.start
           \/ last'.position > temporary_delete_buffer.end) =>
          /\ returned' \in {"NoChange", "Err"}
          /\ temporary_delete_buffer' = temporary_delete_buffer]_vars

\* C27: add_char returns MustPersist exactly when the range it leaves has
\* end - start = max_length, whether it opened the range or extended it, and
\* Added when it changed the range to a shorter one.
C27_RangeMustPersist ==
    [][(/\ DidRangeAddChar'
        /\ ~panicked'
        /\ temporary_delete_buffer' # temporary_delete_buffer) =>
          LET d1 == temporary_delete_buffer'
          IN  /\ (returned' = "MustPersist") <=> (d1.end - d1.start = d1.max_length)
              /\ (d1.end - d1.start < d1.max_length) => returned' = "Added"]_vars

\* the whitespace characters of a text
Whitespace == {" ", "\n"}

\* the call that has just been made was delete_word on a buffer with no range
DidDeleteWordOnEmpty(key) ==
    /\ last'.op = "delete.delete_word"
    /\ last'.key = key
    /\ TemporaryBufferDeleteText_is_empty(temporary_delete_buffer)

\* the largest index below position that holds a whitespace character, or 0
NearestWhitespaceBefore(text, position) ==
    LET found == {i \in 0..(position - 1) : text[i + 1] \in Whitespace}
    IN  IF found = {} THEN 0 ELSE CHOOSE i \in found : \A j \in found : j <= i

\* C28: with no range and 0 < position <= len(text), delete_word(text,
\* position, Backspace) opens [s, position), s the index of the nearest
\* whitespace before position or 0 when there is none, and returns Added;
\* with position = 0 it returns NoChange and opens nothing.
C28_DeleteWordBackspace ==
    [][DidDeleteWordOnEmpty("Backspace") =>
          LET text == last'.text
              p == last'.position
              d1 == temporary_delete_buffer'
          IN  /\ p = 0 => (returned' = "NoChange" /\ d1 = temporary_delete_buffer)
              /\ (0 < p /\ p <= Len(text)) =>
                    /\ returned' = "Added"
                    /\ ~panicked'
                    /\ d1.start = NearestWhitespaceBefore(text, p)
                    /\ d1.end = p]_vars

\* C28 witness: the word behind the second of two whitespace characters is
\* taken, together with that whitespace, by the first call on a new buffer
C28_Witness ==
    /\ nops = 1
    /\ last.op = "delete.delete_word"
    /\ last.key = "Backspace"
    /\ last.text = <<"a", " ", "b", "\n", "c">>
    /\ last.position = 5
    /\ returned = "Added"
    /\ temporary_delete_buffer.start = 3
    /\ temporary_delete_buffer.end = 5

\* C29: with no range and position < len(text), delete_word(text, position,
\* Delete) opens [position, e), e at the nearest whitespace at or after
\* position (the index of the whitespace or the one behind it) or len(text)
\* when there is none, so position <= e <= len(text); with position >=
\* len(text) it returns NoChange and opens nothing.
C29_DeleteWordDelete ==
    [][DidDeleteWordOnEmpty("Delete") =>
          LET text == last'.text
              p == last'.position
              d1 == temporary_delete_buffer'
              found == {i \in p..(Len(text) - 1) : text[i + 1] \in Whitespace}
              first == CHOOSE i \in found : \A j \in found : i <= j
          IN  IF p >= Len(text)
              THEN returned' = "NoChange" /\ d1 = temporary_delete_buffer
              ELSE /\ d1.start = p
                   /\ p <= d1.end
                   /\ d1.end <= Len(text)
                   /\ IF found = {} THEN d1.end = Len(text)
                      ELSE d1.end \in {first, first + 1}]_vars

\* C30: Editor.delete_char(key) at text_position 0 changes neither
\* text_position, the cursor, the temporary buffers nor the piece table; at
\* text_position > 0 Backspace lowers text_position by exactly one and Delete
\* leaves text_position and the cursor as they are.
C30_DeleteCharFrame ==
    [][(last'.op = "delete_char") =>
          IF text_position = 0
          THEN UNCHANGED <<text_position, cursor, temporary_add_buffer,
                           temporary_delete_buffer, table_vars>>
          ELSE IF last'.key = "Backspace"
               THEN text_position' = text_position - 1
               ELSE text_position' = text_position /\ cursor' = cursor]_vars

\* C30 witness: a Delete at the start of the document that left the range
\* [0, 1), pending from a Backspace, as it was
C30_Witness ==
    /\ last.op = "delete_char"
    /\ last.key = "Delete"
    /\ text_position = 0
    /\ original_buffer = <<"a", "b">>
    /\ temporary_delete_buffer.start = 0
    /\ temporary_delete_buffer.end = 1

\* the document offset at which piece number k + 1 of a piece list begins
\* (k = 0 for the first piece, k = Len(ps) for the end of the document)
OffsetOfPiece(ps, k) == SumLengths(SubSeq(ps, 1, k))

\* C32: a successful non-empty add_text at a piece boundary (0,
\* total_length(), or the running total at the end of a piece) makes the piece
\* list one longer, the new Added piece standing between unchanged pieces; at
\* a position strictly inside a piece it makes it two longer, that piece
\* replaced by its left remainder, the new piece and its right remainder.
C32_AddTextPieces ==
    [][DidAddText' =>
          LET ps == pieces
              now == pieces'
              p == last'.position
              newp == Piece("Added", Len(add_buffer), Len(last'.text))
          IN  IF \E k \in 0..Len(ps) : OffsetOfPiece(ps, k) = p
              THEN /\ Len(now) = Len(ps) + 1
                   /\ \E k \in 0..Len(ps) :
                         /\ OffsetOfPiece(ps, k) = p
                         /\ now = SubSeq(ps, 1, k) \o <<newp>> \o SubSeq(ps, k + 1, Len(ps))
              ELSE /\ Len(now) = Len(ps) + 2
                   /\ \E k \in 1..Len(ps) :
                         LET piece == ps[k]
                             off == p - OffsetOfPiece(ps, k - 1)
                         IN  /\ 0 < off
                             /\ off < piece.length
                             /\ now = SubSeq(ps, 1, k - 1)
                                        \o <<Piece(piece.buffer_type, piece.start, off),
                                             newp,
                                             Piece(piece.buffer_type, piece.start + off,
                                                   piece.length - off)>>
                                        \o SubSeq(ps, k + 1, Len(ps))]_vars

\* what is left of a piece list whose first piece begins at document offset
\* at, once [start, end) is cut out: pieces outside the range as they are, of
\* a piece the range cuts the prefix before start and the suffix from end
RECURSIVE KeepOutside(_, _, _, _)
KeepOutside(ps, at, start, end) ==
    IF ps = <<>> THEN <<>>
    ELSE LET piece == Head(ps)
             stop == at + piece.length
             kept == IF stop <= start \/ at >= end
                     THEN <<piece>>
                     ELSE (IF at < start
                           THEN <<Piece(piece.buffer_type, piece.start, start - at)>>
                           ELSE <<>>)
                          \o (IF stop > end
                              THEN <<Piece(piece.buffer_type, piece.start + (end - at),
                                           stop - end)>>
                              ELSE <<>>)
         IN  kept \o KeepOutside(Tail(ps), stop, start, end)

C31_BackspaceAfterTyping ==
    [][(/\ last'.op = "delete_char"
        /\ last'.key = "Backspace"
        /\ streak.n >= 1
        /\ streak.n < temporary_add_buffer.max_length) =>
          /\ temporary_add_buffer'.buffer =
                SubSeq(temporary_add_buffer.buffer, 1, Len(temporary_add_buffer.buffer) - 1)
          /\ Len(temporary_add_buffer.buffer) = streak.n
          /\ UNCHANGED table_vars
          /\ temporary_delete_buffer' = temporary_delete_buffer
          /\ text_position' = text_position - 1
          /\ effective_text' = RefRemove(effective_text, text_position - 1, text_position)]_vars

\* C34: committing pending edits does not change the document: get_text()
\* right before a persist_add_buffer(true) or persist_delete_buffer() that
\* commits something (persist_changes is the one after the other) equals
\* get_text() right after it.
C34_PersistKeepsText ==
    \A i \in 1..Len(persisted) :
        (persisted[i].op # "add_new_line" /\ ~persisted[i].before.panic) =>
            /\ ~persisted[i].after.panic
            /\ persisted[i].after.text = persisted[i].before.text

\* C36: every add_text and delete_text call the Editor issues (from
\* persist_add_buffer, persist_delete_buffer and add_new_line) returns Ok.
C36_TableCallsOk ==
    \A i \in 1..Len(persisted) : persisted[i].ok

\* C35: whenever the add buffer is non-empty after an Editor operation,
\* text_position is the add buffer's position plus its length.
C35_CursorAtEndOfAddBuffer ==
    (~panicked /\ temporary_add_buffer.buffer # <<>>) =>
        text_position = temporary_add_buffer.position + Len(temporary_add_buffer.buffer)

\* C37: the pending delete range is never longer than max_length.
C37_RangeWithinMaxLength ==
    (~panicked /\ get_deletion_range(temporary_delete_buffer).some) =>
        temporary_delete_buffer.end - temporary_delete_buffer.start
            <= temporary_delete_buffer.max_length

\* C39: the cursor's row is a line of the effective text, and text_position
\* is at most the length of the document.
C39_CursorRowExists ==
    renders =>
        /\ cursor.y < Len(line_lengths(effective_text))
        /\ text_position <= Len(effective_text)

\* C38: TemporaryBufferDeleteText.add_char is never called with Backspace
\* while the pending range starts at 0, so start - 1 does not underflow; and
\* delete_char lowers text_position only when it is above 0.
C38_NoUnderflow ==
    [][(last'.op = "delete_char" /\ last'.key = "Backspace") =>
          /\ (/\ text_position > 0
              /\ ~delete_from_add_buffer(editor)
              /\ get_deletion_range(temporary_delete_buffer).some)
                => temporary_delete_buffer.start >= 1
          /\ text_position' # text_position
                => text_position > 0 /\ text_position' = text_position - 1]_vars

\* C38 witness: two Backspaces at the end of "ab": the second was handed to
\* add_char with the range [1, 2) pending and extended it to [0, 2)
C38_Witness ==
    /\ last.op = "delete_char"
    /\ last.key = "Backspace"
    /\ nops = 2
    /\ original_buffer = <<"a", "b">>
    /\ temporary_delete_buffer.start = 0
    /\ temporary_delete_buffer.end = 2
    /\ text_position = 0
    /\ cursor.x = 0

====
